---- MODULE Spec2Model ----
(***************************************************************************)
(* State-machine model of savory's src/main.py: the process-wide cart, the *)
(* catalog loaded at startup, the customer directory, the per-browser      *)
(* login sessions and the Flask request handlers that act on them.  One    *)
(* action per handler; every step serves one whole request.                *)
(***************************************************************************)
EXTENDS Integers, Sequences, FiniteSets, TLC

\* ------------------------------------------------------------------ bounds
\* Largest meal id a request names (ids are the <int:meal_id> of the route).
MaxMealId == 2
\* Number of requests served in one run.
MaxRequests == 4

\* ------------------------------------------------------------------ inputs
\* Browser sessions (visitors); the cart is shared by all of them.
Clients == {"v1", "v2"}
MealIds == 0..MaxMealId
\* Positions a request to update_quantity names; MaxMealId + 1 is past the
\* end of every cart.
Indexes == 0..(MaxMealId + 1)
\* A text is a sequence of one-character strings.
\* Values submitted in the form field quantity-<idx>.
QuantityTexts ==
    { <<"2">>, <<"0">>, <<"-", "1">>, <<"x">> }
\* A POST that carries no quantity-<idx> field at all.
NoField == <<"<missing>">>
Emails == {"ann@x", "bob@x"}
Passwords == {"pw1", "pw2"}
Salts == {"saltA"}
Names == {"N"}
\* Worker threads of the server (app.run serves each request in a thread).
Threads == {"t1", "t2"}
\* What a request to /register or /login carries: a GET, a POST whose form
\* fails validation (a field left empty), or a POST with every field filled.
AuthForm(method, valid, name, email, password) ==
    [method |-> method, valid |-> valid, name |-> name, email |-> email,
     password |-> password]
RegisterForms ==
    { AuthForm("GET", FALSE, "", "", ""), AuthForm("POST", FALSE, "", "", "") }
    \cup { AuthForm("POST", TRUE, n, e, p) :
               n \in Names, e \in Emails, p \in Passwords }
LoginForms ==
    { AuthForm("GET", FALSE, "", "", ""), AuthForm("POST", FALSE, "", "", "") }
    \cup { AuthForm("POST", TRUE, "", e, p) : e \in Emails, p \in Passwords }
\* Catalogs the Meal table can hold at startup (price in hundredths):
\* ids 1..n in order, and the table after the row of id 1 was deleted.
Catalogs ==
    { << [id |-> 1, name |-> "Soup", price |-> 450],
         [id |-> 2, name |-> "Salad", price |-> 600] >>,
      << [id |-> 2, name |-> "Salad", price |-> 600] >> }

VARIABLES
    meals,      \* main.py:48  the catalog, a list of meal dicts
    cart,       \* main.py:49  the dict, as its entries in insertion order
    customers,  \* main.py:35  rows of the customer table
    session,    \* flask_login: client -> id of the logged-in customer, 0 = none
    served,     \* number of requests served so far
    req,        \* the request served last, with the state it found
    resp,       \* the response to it
    calls,      \* payment-session requests it sent to the payment service
    addRun,     \* meal id -> add_to_cart requests since the id was absent,
                \* 0 once another request touched the id
    redirected, \* some checkout request was redirected to the provider
    inflight    \* worker thread -> the request it is in the middle of

vars == <<meals, cart, customers, session, served, req, resp, calls, addRun,
          redirected, inflight>>

\* ------------------------------------------------- Python values and dict
\* A quantity stored in the cart is a Python int or a Python str.
IntVal(n) == [type |-> "int", n |-> n, s |-> <<>>]
StrVal(s) == [type |-> "str", n |-> 0, s |-> s]

\* Python truthiness of a stored quantity: 0 and "" are falsy.
Truthy(v) == IF v.type = "int" THEN v.n # 0 ELSE v.s # <<>>

\* list(cart.keys())
Keys(c) == [i \in 1..Len(c) |-> c[i].id]

\* key in cart
HasKey(c, k) == \E i \in 1..Len(c) : c[i].id = k

\* position of key k in the dict's order (the key is present)
PosOf(c, k) == CHOOSE i \in 1..Len(c) : c[i].id = k

\* cart[k] (the key is present)
GetItem(c, k) == c[PosOf(c, k)].quantity

\* cart[k] = v: an existing key keeps its position, a new key goes last
SetItem(c, k, v) ==
    IF HasKey(c, k)
    THEN [c EXCEPT ![PosOf(c, k)].quantity = v]
    ELSE Append(c, [id |-> k, quantity |-> v])

\* cart.pop(k) (the key is present)
Pop(c, k) ==
    LET p == PosOf(c, k)
    IN  SubSeq(c, 1, p - 1) \o SubSeq(c, p + 1, Len(c))

\* seq[i] with Python's indexing: the 1-based position read, 0 for IndexError
PyIndex(len, i) ==
    IF i >= 0 /\ i < len THEN i + 1
    ELSE IF i < 0 /\ i >= -len THEN len + i + 1
    ELSE 0

\* ------------------------------------------------------------ int(text)
Digits == {"0", "1", "2", "3", "4", "5", "6", "7", "8", "9"}

DigitVal(ch) ==
    CASE ch = "0" -> 0 [] ch = "1" -> 1 [] ch = "2" -> 2 [] ch = "3" -> 3
      [] ch = "4" -> 4 [] ch = "5" -> 5 [] ch = "6" -> 6 [] ch = "7" -> 7
      [] ch = "8" -> 8 [] ch = "9" -> 9

RECURSIVE StripLeft(_)
StripLeft(t) ==
    IF t # <<>> /\ Head(t) = " " THEN StripLeft(Tail(t)) ELSE t

RECURSIVE StripRight(_)
StripRight(t) ==
    IF t # <<>> /\ t[Len(t)] = " "
    THEN StripRight(SubSeq(t, 1, Len(t) - 1))
    ELSE t

RECURSIVE DigitsValue(_)
DigitsValue(t) ==
    IF t = <<>> THEN 0
    ELSE 10 * DigitsValue(SubSeq(t, 1, Len(t) - 1)) + DigitVal(t[Len(t)])

\* int(text): surrounding blanks dropped, an optional sign, then one or more
\* decimal digits; anything else raises ValueError (ok = FALSE).
ParseInt(text) ==
    LET t == StripRight(StripLeft(text))
        signed == t # <<>> /\ Head(t) \in {"+", "-"}
        body == IF signed THEN Tail(t) ELSE t
        ok == body # <<>> /\ \A i \in 1..Len(body) : body[i] \in Digits
    IN  [ok |-> ok,
         val |-> IF ~ok THEN 0
                 ELSE IF signed /\ Head(t) = "-" THEN -DigitsValue(body)
                 ELSE DigitsValue(body)]

\* float(quantity) as the cart view applies it to a stored quantity
FloatOf(v) == IF v.type = "int" THEN [ok |-> TRUE, val |-> v.n] ELSE ParseInt(v.s)

\* ------------------------------------------------------------- responses
NoFlash == ""
Response(kind, to, code, flash) ==
    [kind |-> kind, to |-> to, code |-> code, flash |-> flash,
     line_items |-> <<>>, meal_ids |-> <<>>, total_price |-> 0]

\* redirect(url_for(endpoint)), after flash(message) when there is one
Redirect(endpoint, flash) == Response("redirect", endpoint, 302, flash)
\* render_template(template)
Render(template) == Response("render", template, 200, NoFlash)
\* An exception no handler catches: Flask answers 500 (the debugger page).
Fault(exception) == Response("fault", exception, 500, NoFlash)

\* current_user.is_authenticated for the client's session
IsAuthenticated(sess, v) == sess[v] # 0

\* --------------------------------------------------------- get_line_items
\* Prices are kept in hundredths of a dollar, so meal['price'] * 100, the
\* amount in cents, is the same number.
LineItem(meal, quantity) ==
    [currency |-> "usd", name |-> meal.name,
     unit_amount_decimal |-> meal.price, quantity |-> quantity]

\* meals[item - 1] for every cart entry, in the dict's order; IndexError
\* (ok = FALSE) as soon as one position is outside the list.
get_line_items(c, m) ==
    IF \E i \in 1..Len(c) : PyIndex(Len(m), c[i].id - 1) = 0
    THEN [ok |-> FALSE, line_items |-> <<>>, meal_ids |-> <<>>]
    ELSE [ok |-> TRUE,
          line_items |-> [i \in 1..Len(c) |->
              LineItem(m[PyIndex(Len(m), c[i].id - 1)], c[i].quantity)],
          meal_ids |-> Keys(c)]

\* ------------------------------------------------------ request bookkeeping
NoArg == -1
NoForm == <<>>

Request(v, handler, method, arg, form) ==
    [client |-> v, handler |-> handler, method |-> method, arg |-> arg,
     form |-> form, cart |-> cart, user |-> session[v]]

\* The cart key a request to update_quantity names, -1 when out of range.
TargetKey(c, idx) == IF idx < Len(c) THEN Keys(c)[idx + 1] ELSE -1

\* Whether the request is one that reads or writes the cart entry of id k,
\* add_to_cart(k) aside.
Touches(handler, arg, c, k) ==
    \/ handler \in {"order_success", "logout"}
    \/ handler = "update_quantity" /\ TargetKey(c, arg) = k

NextAddRun(handler, arg) ==
    [k \in MealIds |->
        IF handler = "add_to_cart" /\ arg = k
        THEN IF ~HasKey(cart, k) THEN 1
             ELSE IF addRun[k] > 0 THEN addRun[k] + 1 ELSE 0
        ELSE IF Touches(handler, arg, cart, k) THEN 0
        ELSE addRun[k]]

\* One request served: the handler's effects and its response.
Serve(request, newCart, response, sent) ==
    /\ served < MaxRequests
    /\ served' = served + 1
    /\ req' = request
    /\ cart' = newCart
    /\ resp' = response
    /\ calls' = sent
    /\ addRun' = NextAddRun(request.handler, request.arg)
    /\ redirected' = (redirected \/ response.code = 303)
    /\ UNCHANGED meals

\* ------------------------------------------------ create_checkout_session
ProviderUrl == "https://checkout.stripe.com/c/pay"

\* The arguments of stripe.checkout.Session.create
PaymentRequest(line_items) ==
    [line_items |-> line_items, mode |-> "payment",
     success_url |-> "http://127.0.0.1:4242/order/success",
     cancel_url |-> "http://127.0.0.1:4242/cancel"]

\* Variant: the empty-cart test is left out.
CheckoutResultNoCartTest(authenticated, c, m, pay) ==
    IF authenticated
    THEN LET derived == get_line_items(c, m)
         IN  IF ~derived.ok
             THEN [resp |-> Fault("IndexError"), calls |-> <<>>]
             ELSE [resp |-> IF pay = "ok"
                            THEN Response("redirect", ProviderUrl, 303, NoFlash)
                            ELSE Fault("StripeError"),
                   calls |-> << PaymentRequest(derived.line_items) >>]
    ELSE [resp |-> Redirect("login",
                     "You must be signed in to checkout. Please log in!"),
          calls |-> <<>>]

\* Variant: the sign-in test is left out.
CheckoutResultNoAuthTest(authenticated, c, m, pay) ==
    IF c # <<>>
    THEN LET derived == get_line_items(c, m)
         IN  IF ~derived.ok
             THEN [resp |-> Fault("IndexError"), calls |-> <<>>]
             ELSE [resp |-> IF pay = "ok"
                            THEN Response("redirect", ProviderUrl, 303, NoFlash)
                            ELSE Fault("StripeError"),
                   calls |-> << PaymentRequest(derived.line_items) >>]
    ELSE [resp |-> Redirect("home", NoFlash), calls |-> <<>>]

\* The response and the payment-session requests sent; pay is the payment
\* service's answer, "ok" or "error" (the call raises).
CheckoutResult(authenticated, c, m, pay) ==
    IF authenticated
    THEN IF c # <<>>
         THEN LET derived == get_line_items(c, m)
              IN  IF ~derived.ok
                  THEN [resp |-> Fault("IndexError"), calls |-> <<>>]
                  ELSE [resp |-> IF pay = "ok"
                                 THEN Response("redirect", ProviderUrl, 303, NoFlash)
                                 ELSE Fault("StripeError"),
                        calls |-> << PaymentRequest(derived.line_items) >>]
         ELSE [resp |-> Redirect("home", NoFlash), calls |-> <<>>]
    ELSE [resp |-> Redirect("login",
                     "You must be signed in to checkout. Please log in!"),
          calls |-> <<>>]

create_checkout_session(v, pay) ==
    LET r == CheckoutResult(IsAuthenticated(session, v), cart, meals, pay)
    IN  /\ Serve(Request(v, "create_checkout_session", "POST", NoArg, NoForm),
                 cart, r.resp, r.calls)
        /\ UNCHANGED <<customers, session>>

\* ------------------------------------------------- order_success, cancel
\* Variant: the cart is not cleared.
order_success_keeps_cart(v) ==
    /\ Serve(Request(v, "order_success", "GET", NoArg, NoForm),
             cart, Render("success.html"), <<>>)
    /\ UNCHANGED <<customers, session>>

order_success(v) ==
    /\ Serve(Request(v, "order_success", "GET", NoArg, NoForm),
             <<>>, Render("success.html"), <<>>)
    /\ UNCHANGED <<customers, session>>

\* Variant: cancel clears the cart as the success handler does.
cancel_clears_cart(v) ==
    /\ Serve(Request(v, "cancel", "GET", NoArg, NoForm),
             <<>>, Redirect("shopping_cart", NoFlash), <<>>)
    /\ UNCHANGED <<customers, session>>

cancel(v) ==
    /\ Serve(Request(v, "cancel", "GET", NoArg, NoForm),
             cart, Redirect("shopping_cart", NoFlash), <<>>)
    /\ UNCHANGED <<customers, session>>

\* ------------------------------------------------------------ add_to_cart
\* Variant: every request stores 1.
AddResultNoIncrement(c, meal_id) ==
    [cart |-> SetItem(c, meal_id, IntVal(1)), resp |-> Redirect("home", NoFlash)]

\* cart.get(meal_id) is truthy: cart[meal_id] += 1, a TypeError when the
\* stored quantity is a str; otherwise cart[meal_id] = 1.
AddResult(c, meal_id) ==
    IF HasKey(c, meal_id) /\ Truthy(GetItem(c, meal_id))
    THEN IF GetItem(c, meal_id).type = "int"
         THEN [cart |-> SetItem(c, meal_id, IntVal(GetItem(c, meal_id).n + 1)),
               resp |-> Redirect("home", NoFlash)]
         ELSE [cart |-> c, resp |-> Fault("TypeError")]
    ELSE [cart |-> SetItem(c, meal_id, IntVal(1)),
          resp |-> Redirect("home", NoFlash)]

add_to_cart(v, meal_id) ==
    LET r == AddResult(cart, meal_id)
    IN  /\ Serve(Request(v, "add_to_cart", "GET", meal_id, NoForm),
                 r.cart, r.resp, <<>>)
        /\ UNCHANGED <<customers, session>>

\* ---------------------------------------------------------- shopping_cart
RECURSIVE SumTotal(_)
\* total += unit_amount_decimal / 100 * float(quantity), in hundredths
SumTotal(items) ==
    IF items = <<>> THEN 0
    ELSE Head(items).unit_amount_decimal * FloatOf(Head(items).quantity).val
         + SumTotal(Tail(items))

CartViewResult(c, m) ==
    LET derived == get_line_items(c, m)
    IN  IF ~derived.ok THEN Fault("IndexError")
        ELSE IF \E i \in 1..Len(c) : ~FloatOf(c[i].quantity).ok
        THEN Fault("ValueError")
        ELSE [Render("shopping_cart.html") EXCEPT
                 !.line_items = derived.line_items,
                 !.meal_ids = derived.meal_ids,
                 !.total_price = SumTotal(derived.line_items)]

shopping_cart(v) ==
    /\ Serve(Request(v, "shopping_cart", "GET", NoArg, NoForm),
             cart, CartViewResult(cart, meals), <<>>)
    /\ UNCHANGED <<customers, session>>

\* -------------------------------------------------------- update_quantity
\* Variant: a quantity that does not parse is stored as it came.
UpdateResultStoresUnparsed(c, method, item_idx, text) ==
    IF PyIndex(Len(c), item_idx) = 0
    THEN [cart |-> c, resp |-> Fault("IndexError")]
    ELSE LET cart_idx == Keys(c)[PyIndex(Len(c), item_idx)]
         IN  IF method = "GET"
             THEN [cart |-> Pop(c, cart_idx),
                   resp |-> Redirect("shopping_cart", NoFlash)]
             ELSE IF text = NoField
             THEN [cart |-> c,
                   resp |-> Response("fault", "BadRequestKeyError", 400, NoFlash)]
             ELSE IF ~ParseInt(text).ok \/ ParseInt(text).val > 0
             THEN [cart |-> SetItem(c, cart_idx, StrVal(text)),
                   resp |-> Redirect("shopping_cart", NoFlash)]
             ELSE [cart |-> Pop(c, cart_idx),
                   resp |-> Redirect("shopping_cart", NoFlash)]

\* Variant: a POST that sets a quantity pops the entry and stores it anew.
UpdateResultMovesToEnd(c, method, item_idx, text) ==
    IF PyIndex(Len(c), item_idx) = 0
    THEN [cart |-> c, resp |-> Fault("IndexError")]
    ELSE LET cart_idx == Keys(c)[PyIndex(Len(c), item_idx)]
         IN  IF method = "GET"
             THEN [cart |-> Pop(c, cart_idx),
                   resp |-> Redirect("shopping_cart", NoFlash)]
             ELSE IF text = NoField
             THEN [cart |-> c,
                   resp |-> Response("fault", "BadRequestKeyError", 400, NoFlash)]
             ELSE IF ~ParseInt(text).ok
             THEN [cart |-> c, resp |-> Fault("ValueError")]
             ELSE IF ParseInt(text).val > 0
             THEN [cart |-> SetItem(Pop(c, cart_idx), cart_idx, StrVal(text)),
                   resp |-> Redirect("shopping_cart", NoFlash)]
             ELSE [cart |-> Pop(c, cart_idx),
                   resp |-> Redirect("shopping_cart", NoFlash)]

\* list(cart.keys())[item_idx] raises IndexError past the end (item_idx is
\* never negative: the route's int converter).  GET pops the entry.  POST
\* reads the field (a missing field is a BadRequestKeyError), parses it with
\* int() and, when positive, stores the field's text itself.
UpdateResult(c, method, item_idx, text) ==
    IF PyIndex(Len(c), item_idx) = 0
    THEN [cart |-> c, resp |-> Fault("IndexError")]
    ELSE LET cart_idx == Keys(c)[PyIndex(Len(c), item_idx)]
         IN  IF method = "GET"
             THEN [cart |-> Pop(c, cart_idx),
                   resp |-> Redirect("shopping_cart", NoFlash)]
             ELSE IF text = NoField
             THEN [cart |-> c,
                   resp |-> Response("fault", "BadRequestKeyError", 400, NoFlash)]
             ELSE IF ~ParseInt(text).ok
             THEN [cart |-> c, resp |-> Fault("ValueError")]
             ELSE IF ParseInt(text).val > 0
             THEN [cart |-> SetItem(c, cart_idx, StrVal(text)),
                   resp |-> Redirect("shopping_cart", NoFlash)]
             ELSE [cart |-> Pop(c, cart_idx),
                   resp |-> Redirect("shopping_cart", NoFlash)]

update_quantity(v, method, item_idx, text) ==
    LET r == UpdateResult(cart, method, item_idx, text)
    IN  /\ Serve(Request(v, "update_quantity", method, item_idx,
                         IF method = "GET" THEN NoForm ELSE text),
                 r.cart, r.resp, <<>>)
        /\ UNCHANGED <<customers, session>>

\* ------------------------------------------------- register, login, logout
\* generate_password_hash(password, method='pbkdf2:sha256', salt_length=8):
\* the salt is drawn at random and kept with the digest of salt and password.
generate_password_hash(password, salt) ==
    [method |-> "pbkdf2:sha256", salt |-> salt, digest |-> <<salt, password>>]

\* Variant: every password verifies.
check_password_hash_any(pwhash, password) == TRUE

\* check_password_hash: the digest recomputed with the stored salt
check_password_hash(pwhash, password) ==
    pwhash.digest = <<pwhash.salt, password>>

\* Customer.query.filter_by(email=email).first(): the row's id, 0 for None
FindByEmail(rows, email) ==
    IF \E i \in 1..Len(rows) : rows[i].email = email
    THEN CHOOSE i \in 1..Len(rows) :
            /\ rows[i].email = email
            /\ \A j \in 1..(i - 1) : rows[j].email # email
    ELSE 0

\* where a fresh login lands
Landing(c) == IF c # <<>> THEN Redirect("shopping_cart", NoFlash)
              ELSE Redirect("home", NoFlash)

\* Variant: the directory is not searched for the email.
RegisterResultNoEmailTest(authenticated, rows, c, submitted, name, email, password, salt) ==
    IF authenticated
    THEN [customers |-> rows, login |-> 0, resp |-> Redirect("home", NoFlash)]
    ELSE IF submitted
    THEN [customers |-> Append(rows,
              [id |-> Len(rows) + 1, name |-> name, email |-> email,
               password |-> generate_password_hash(password, salt)]),
          login |-> Len(rows) + 1,
          resp |-> Landing(c)]
    ELSE [customers |-> rows, login |-> 0, resp |-> Render("register.html")]

\* submitted: the request is a POST whose form passes its validators
\* (validate_on_submit).
RegisterResult(authenticated, rows, c, submitted, name, email, password, salt) ==
    IF authenticated
    THEN [customers |-> rows, login |-> 0, resp |-> Redirect("home", NoFlash)]
    ELSE IF submitted
    THEN IF FindByEmail(rows, email) # 0
         THEN [customers |-> rows, login |-> 0,
               resp |-> Redirect("login",
                   "You've already signed up with that email, log in instead!")]
         ELSE [customers |-> Append(rows,
                   [id |-> Len(rows) + 1, name |-> name, email |-> email,
                    password |-> generate_password_hash(password, salt)]),
               login |-> Len(rows) + 1,
               resp |-> Landing(c)]
    ELSE [customers |-> rows, login |-> 0, resp |-> Render("register.html")]

register(v, form, salt) ==
    LET r == RegisterResult(IsAuthenticated(session, v), customers, cart,
                            form.method = "POST" /\ form.valid,
                            form.name, form.email, form.password, salt)
    IN  /\ Serve(Request(v, "register", form.method, NoArg,
                         <<form.name, form.email, form.password>>),
                 cart, r.resp, <<>>)
        /\ customers' = r.customers
        /\ session' = IF r.login # 0 THEN [session EXCEPT ![v] = r.login]
                      ELSE session

LoginResult(authenticated, rows, c, submitted, email, password) ==
    IF authenticated
    THEN [login |-> 0, resp |-> Redirect("home", NoFlash)]
    ELSE IF submitted
    THEN LET customer == FindByEmail(rows, email)
         IN  IF customer # 0
             THEN IF check_password_hash(rows[customer].password, password)
                  THEN [login |-> customer, resp |-> Landing(c)]
                  ELSE [login |-> 0,
                        resp |-> Redirect("login",
                            "Password incorrect. Please try again.")]
             ELSE [login |-> 0,
                   resp |-> Redirect("login",
                       "That email does not exist. Please try again.")]
    ELSE [login |-> 0, resp |-> Render("login.html")]

login(v, form) ==
    LET r == LoginResult(IsAuthenticated(session, v), customers, cart,
                         form.method = "POST" /\ form.valid,
                         form.email, form.password)
    IN  /\ Serve(Request(v, "login", form.method, NoArg,
                         <<form.email, form.password>>),
                 cart, r.resp, <<>>)
        /\ session' = IF r.login # 0 THEN [session EXCEPT ![v] = r.login]
                      ELSE session
        /\ UNCHANGED customers

\* Variant: the cart is not cleared.
LogoutResultKeepsCart(sess, v) ==
    [session |-> [sess EXCEPT ![v] = 0], cart |-> cart,
     resp |-> Redirect("home", NoFlash)]

\* logout_user(); cart.clear()
LogoutResult(sess, v) ==
    [session |-> [sess EXCEPT ![v] = 0], cart |-> <<>>,
     resp |-> Redirect("home", NoFlash)]

logout(v) ==
    LET r == LogoutResult(session, v)
    IN  /\ Serve(Request(v, "logout", "GET", NoArg, NoForm),
                 r.cart, r.resp, <<>>)
        /\ session' = r.session
        /\ UNCHANGED customers

\* ------------------------------------------------------------------- spec
NoRequest ==
    [client |-> "", handler |-> "", method |-> "", arg |-> NoArg,
     form |-> NoForm, cart |-> <<>>, user |-> 0]

\* A thread that is serving no request.
Idle == [pc |-> "idle", client |-> "", arg |-> NoArg, local |-> IntVal(0)]

\* Process start: the catalog read from the Meal table, an empty cart, the
\* customer table as the database holds it (here: empty), no one logged in.
Init ==
    /\ meals \in Catalogs
    /\ cart = <<>>
    /\ customers = <<>>
    /\ session = [v \in Clients |-> 0]
    /\ served = 0
    /\ req = NoRequest
    /\ resp = Response("", "", 0, NoFlash)
    /\ calls = <<>>
    /\ addRun = [k \in MealIds |-> 0]
    /\ redirected = FALSE
    /\ inflight = [t \in Threads |-> Idle]

\* Every request is served from start to end before the next one starts.
Next ==
    /\ UNCHANGED inflight
    /\ \E v \in Clients :
           \/ \E meal_id \in MealIds : add_to_cart(v, meal_id)
           \/ \E item_idx \in Indexes :
                   update_quantity(v, "GET", item_idx, NoField)
           \/ \E item_idx \in Indexes, text \in QuantityTexts \cup {NoField} :
                   update_quantity(v, "POST", item_idx, text)
           \/ shopping_cart(v)
           \/ \E pay \in {"ok", "error"} : create_checkout_session(v, pay)
           \/ order_success(v)
           \/ cancel(v)
           \/ \E form \in RegisterForms, salt \in Salts : register(v, form, salt)
           \/ \E form \in LoginForms : login(v, form)
           \/ logout(v)

Spec == Init /\ [][Next]_vars

\* ================================================================ claims
CatalogIds(m) == { m[i].id : i \in 1..Len(m) }

\* The user-visible form of a handled error: a notice and a redirect.
NoticeAndRedirect(r) == r.kind = "redirect" /\ r.flash # NoFlash

CartHandlers == {"add_to_cart", "update_quantity", "order_success", "logout"}
ReadOnlyHandlers ==
    {"cancel", "create_checkout_session", "shopping_cart", "login", "register"}

\* C1: every key of the cart is the id of a catalog item, and add_to_cart
\* with an id that is no catalog id fails with a notice (InvalidItem) and
\* leaves the cart unchanged.
C1_CartKeysAreCatalogIds ==
    /\ \A i \in 1..Len(cart) : cart[i].id \in CatalogIds(meals)
    /\ (req.handler = "add_to_cart" /\ req.arg \notin CatalogIds(meals))
          => (cart = req.cart /\ NoticeAndRedirect(resp))

\* C2: once an id was absent from the cart and only add_to_cart(id) requests
\* touched it since, n >= 1 of them, the cart holds the integer n for it.
C2_SequentialAddsCount ==
    \A k \in MealIds :
        addRun[k] > 0 => HasKey(cart, k) /\ GetItem(cart, k) = IntVal(addRun[k])

C2_Witness ==
    \E k \in CatalogIds(meals) :
        addRun[k] = 3 /\ req.handler = "add_to_cart" /\ req.arg = k

\* C3: a POST to update_quantity for an existing entry with a numeric
\* quantity q removes the entry when q <= 0 and otherwise stores the integer q.
C3_PostStoresInteger ==
    (/\ req.handler = "update_quantity"
     /\ req.method = "POST"
     /\ req.arg < Len(req.cart)
     /\ ParseInt(req.form).ok)
    => LET k == TargetKey(req.cart, req.arg)
           q == ParseInt(req.form).val
       IN  IF q <= 0 THEN ~HasKey(cart, k)
           ELSE HasKey(cart, k) /\ GetItem(cart, k) = IntVal(q)

\* C4: every quantity stored in the cart is a positive integer, so that an
\* add_to_cart of an id already in the cart adds 1 to its quantity.
C4_QuantitiesArePositiveIntegers ==
    /\ \A i \in 1..Len(cart) :
          cart[i].quantity.type = "int" /\ cart[i].quantity.n > 0
    /\ (req.handler = "add_to_cart" /\ HasKey(req.cart, req.arg))
          => /\ resp.kind # "fault"
             /\ HasKey(cart, req.arg)
             /\ GetItem(cart, req.arg).type = "int"
             /\ FloatOf(GetItem(req.cart, req.arg)).ok
             /\ GetItem(cart, req.arg).n
                    = FloatOf(GetItem(req.cart, req.arg)).val + 1

\* C5 as claimed: a checkout request that finds the cart empty sends nothing
\* to the payment service and is redirected home without a notice.
C5_EmptyCartCheckoutGoesHome ==
    (req.handler = "create_checkout_session" /\ req.cart = <<>>)
    => (calls = <<>> /\ resp = Redirect("home", NoFlash))

\* C5 as amended: a checkout request that finds the cart empty sends nothing
\* to the payment service; when its session is authenticated it is redirected
\* home without a notice, and otherwise to the login page with the
\* must-sign-in notice.
C5_EmptyCartCheckoutSendsNothing ==
    (req.handler = "create_checkout_session" /\ req.cart = <<>>)
    => /\ calls = <<>>
       /\ req.user # 0 => resp = Redirect("home", NoFlash)
       /\ req.user = 0 => resp = Redirect("login",
                              "You must be signed in to checkout. Please log in!")

C5_Witness ==
    /\ req.handler = "create_checkout_session"
    /\ req.cart = <<>>
    /\ req.user # 0
    /\ resp.to = "home"

\* C6: a checkout request without an authenticated session sends nothing to
\* the payment service, whatever the cart holds, and is answered with the
\* must-sign-in notice and a redirect to the login page.
C6_UnauthenticatedCheckoutRejected ==
    (req.handler = "create_checkout_session" /\ req.user = 0)
    => /\ calls = <<>>
       /\ resp = Redirect("login",
                    "You must be signed in to checkout. Please log in!")

C6_Witness ==
    /\ req.handler = "create_checkout_session"
    /\ req.user = 0
    /\ req.cart # <<>>
    /\ \E v \in Clients : session[v] # 0
    /\ resp.to = "login"

\* C7: an authenticated checkout request that finds the cart non-empty sends
\* exactly one payment-session request, with one line item per cart entry
\* carrying the name and the amount in cents of the catalog item of that id
\* and the entry's quantity, and when the payment service accepts it the
\* answer is a 303 redirect to the provider's URL.
C7_CheckoutSendsCartLineItems ==
    (/\ req.handler = "create_checkout_session"
     /\ req.user # 0
     /\ req.cart # <<>>)
    => /\ Len(calls) = 1
       /\ Len(calls[1].line_items) = Len(req.cart)
       /\ \A i \in 1..Len(req.cart) :
             \E j \in 1..Len(meals) :
                /\ meals[j].id = req.cart[i].id
                /\ calls[1].line_items[i].name = meals[j].name
                /\ calls[1].line_items[i].unit_amount_decimal = meals[j].price
                /\ calls[1].line_items[i].quantity = req.cart[i].quantity
       /\ \/ resp = Response("redirect", ProviderUrl, 303, NoFlash)
          \/ resp = Fault("StripeError")

\* C8: a request to order_success leaves the cart empty and renders the
\* success page, whatever the cart held; a second one right after the first
\* changes neither the cart nor the answer.
C8_SuccessClearsCart ==
    [][ (served' = served + 1 /\ req'.handler = "order_success")
        => /\ cart' = <<>>
           /\ resp' = Render("success.html")
           /\ req.handler = "order_success" => (cart' = cart /\ resp' = resp)
      ]_vars

C8_Witness ==
    /\ req.handler = "order_success"
    /\ req.cart # <<>>
    /\ cart = <<>>

\* C9: only add_to_cart, update_quantity, order_success and logout change the
\* cart; cancel, checkout, the cart view, login and register leave its keys,
\* quantities and order as they were, and cancel redirects to the cart view.
C9_OnlyCartHandlersChangeCart ==
    [][ /\ cart' # cart => req'.handler \in CartHandlers
        /\ (served' = served + 1 /\ req'.handler \in ReadOnlyHandlers)
              => cart' = cart
        /\ (served' = served + 1 /\ req'.handler = "cancel")
              => resp' = Redirect("shopping_cart", NoFlash)
      ]_vars

C9_Witness ==
    /\ req.handler = "cancel"
    /\ Len(cart) >= 2
    /\ cart = req.cart
    /\ resp.to = "shopping_cart"

\* C10: after a logout request the client's session is bound to no customer
\* and the cart is empty, whatever they were before.
C10_LogoutEndsSessionAndClearsCart ==
    req.handler = "logout" => (session[req.client] = 0 /\ cart = <<>>)

C10_Witness ==
    /\ req.handler = "logout"
    /\ req.user # 0
    /\ req.cart # <<>>
    /\ session[req.client] = 0
    /\ cart = <<>>

AlreadySignedUp == "You've already signed up with that email, log in instead!"

UniqueEmails(rows) ==
    \A i, j \in 1..Len(rows) : rows[i].email = rows[j].email => i = j

\* A step that serves a request to the handler.
Serves(handler) == served' = served + 1 /\ req'.handler = handler

\* The register request of the step submits a form naming an email that the
\* directory already holds.
RegistersKnownEmail ==
    /\ Serves("register")
    /\ req'.method = "POST"
    /\ FindByEmail(customers, req'.form[2]) # 0

\* C11 as claimed: no two customers share an email, and every registration
\* submitted with an email already in the directory creates no customer,
\* logs no one in and is answered with the already-signed-up notice and a
\* redirect to login.
C11_DuplicateEmailRejected ==
    [][ /\ UniqueEmails(customers')
        /\ RegistersKnownEmail
              => /\ customers' = customers
                 /\ session' = session
                 /\ resp' = Redirect("login", AlreadySignedUp)
      ]_vars

\* C11 as amended: no two customers share an email, and a registration
\* submitted with an email already in the directory creates no customer and
\* logs no one in; from a session that is not authenticated it is answered
\* with the already-signed-up notice and a redirect to login, from an
\* authenticated one with a redirect home.
C11_DuplicateEmailCreatesNothing ==
    [][ /\ UniqueEmails(customers')
        /\ RegistersKnownEmail
              => /\ customers' = customers
                 /\ session' = session
                 /\ req'.user = 0 => resp' = Redirect("login", AlreadySignedUp)
                 /\ req'.user # 0 => resp' = Redirect("home", NoFlash)
      ]_vars

C11_Witness ==
    /\ req.handler = "register"
    /\ req.user = 0
    /\ resp = Redirect("login", AlreadySignedUp)
    /\ Len(customers) = 1
    /\ customers[1].email = req.form[2]
    /\ session[req.client] = 0

UnknownEmailNotice == "That email does not exist. Please try again."
WrongPasswordNotice == "Password incorrect. Please try again."

\* The login request of the step comes from a session that is not
\* authenticated and submits a form with every field filled.
SubmitsLogin ==
    /\ Serves("login")
    /\ req'.user = 0
    /\ req'.method = "POST"
    /\ req'.form[1] \in Emails

\* C12: a session becomes authenticated only by a login whose email is in the
\* directory and whose password verifies against that customer's hash, or by
\* a registration that created the customer; a login with an unknown email is
\* answered with the unknown-email notice, one with a known email and a wrong
\* password with the wrong-password notice, and both leave every session as
\* it was.
C12_OnlyVerifiedLoginAuthenticates ==
    [][ /\ \A v \in Clients :
              (session'[v] # session[v] /\ session'[v] # 0)
              => /\ req'.client = v
                 /\ \/ /\ req'.handler = "login"
                       /\ FindByEmail(customers, req'.form[1]) = session'[v]
                       /\ customers[session'[v]].password
                             = generate_password_hash(req'.form[2],
                                   customers[session'[v]].password.salt)
                    \/ /\ req'.handler = "register"
                       /\ customers' # customers
                       /\ session'[v] = Len(customers')
                       /\ customers'[session'[v]].email = req'.form[2]
        /\ (SubmitsLogin /\ FindByEmail(customers, req'.form[1]) = 0)
              => /\ resp' = Redirect("login", UnknownEmailNotice)
                 /\ session' = session
        /\ (/\ SubmitsLogin
            /\ FindByEmail(customers, req'.form[1]) # 0
            /\ customers[FindByEmail(customers, req'.form[1])].password
                  # generate_password_hash(req'.form[2],
                        customers[FindByEmail(customers, req'.form[1])].password.salt))
              => /\ resp' = Redirect("login", WrongPasswordNotice)
                 /\ session' = session
      ]_vars

C12_Witness ==
    /\ req.handler = "login"
    /\ req.user = 0
    /\ resp = Redirect("login", WrongPasswordNotice)
    /\ FindByEmail(customers, req.form[1]) # 0
    /\ session[req.client] = 0

\* The catalog item of the id, by id: its position in meals, 0 when none.
MealById(m, id) ==
    IF \E j \in 1..Len(m) : m[j].id = id
    THEN CHOOSE j \in 1..Len(m) : m[j].id = id
    ELSE 0

RECURSIVE TotalById(_, _)
TotalById(c, m) ==
    IF c = <<>> THEN 0
    ELSE m[MealById(m, Head(c).id)].price * FloatOf(Head(c).quantity).val
         + TotalById(Tail(c), m)

\* C13: the cart view derives one line item per cart entry, in the cart's
\* order, with the name and the amount in cents of the catalog item whose id
\* is the entry's key and the entry's quantity, and a total of price times
\* quantity summed; an empty cart gives no line item and total 0, and Soup
\* (4.50, id 1) twice with Salad (6.00, id 2) once gives (Soup, 450, 2),
\* (Salad, 600, 1) and total 15.00.
C13_LineItemsByCatalogId ==
    req.handler = "shopping_cart"
    => /\ resp.kind = "render"
       /\ Len(resp.line_items) = Len(req.cart)
       /\ \A i \in 1..Len(req.cart) :
             /\ MealById(meals, req.cart[i].id) # 0
             /\ resp.line_items[i].name
                   = meals[MealById(meals, req.cart[i].id)].name
             /\ resp.line_items[i].unit_amount_decimal
                   = meals[MealById(meals, req.cart[i].id)].price
             /\ resp.line_items[i].quantity = req.cart[i].quantity
       /\ resp.total_price = TotalById(req.cart, meals)
       /\ req.cart = <<>> => (resp.line_items = <<>> /\ resp.total_price = 0)
       /\ (/\ Len(meals) = 2
           /\ req.cart = << [id |-> 1, quantity |-> IntVal(2)],
                            [id |-> 2, quantity |-> IntVal(1)] >>)
          => /\ resp.line_items
                   = << LineItem([name |-> "Soup", price |-> 450], IntVal(2)),
                        LineItem([name |-> "Salad", price |-> 600], IntVal(1)) >>
             /\ resp.total_price = 1500

\* The request served last is a POST to update_quantity whose quantity field
\* is present and is not the text of an integer.
PostedNonNumeric ==
    /\ req.handler = "update_quantity"
    /\ req.method = "POST"
    /\ req.form # NoField
    /\ ~ParseInt(req.form).ok

CartOrCheckoutHandlers ==
    {"add_to_cart", "update_quantity", "shopping_cart",
     "create_checkout_session", "order_success", "cancel"}

\* The request served last met one of the error cases: an update_quantity
\* index past the end of the cart, a cart key with no catalog item when line
\* items are derived, an increment of a quantity that is not an integer.
MetErrorCase ==
    \/ req.handler = "update_quantity" /\ req.arg >= Len(req.cart)
    \/ /\ \/ req.handler = "shopping_cart"
          \/ req.handler = "create_checkout_session" /\ req.user # 0
       /\ \E i \in 1..Len(req.cart) : MealById(meals, req.cart[i].id) = 0
    \/ /\ req.handler = "add_to_cart"
       /\ HasKey(req.cart, req.arg)
       /\ GetItem(req.cart, req.arg).type # "int"

\* C15: no cart or checkout request ends in an unhandled exception; in each
\* of the error cases the answer is a notice and a redirect.
C15_NoRawFault ==
    req.handler \in CartOrCheckoutHandlers
    => /\ resp.kind # "fault"
       /\ MetErrorCase => NoticeAndRedirect(resp)

\* C16: when the payment service fails the create-payment-session call, the
\* checkout request is answered with a notice (the retry message of
\* PaymentServiceUnavailable) and a redirect, not with an unhandled exception,
\* and the cart is left as it was.
C16_PaymentFailureHandled ==
    [][ \A v \in Clients :
           (create_checkout_session(v, "error") /\ calls' # <<>>)
           => /\ NoticeAndRedirect(resp')
              /\ resp'.kind # "fault"
              /\ cart' = cart
      ]_vars

\* C17: an order_success request that empties a cart comes only after a
\* checkout request of an authenticated session that found the cart
\* non-empty and was redirected to the provider.
C17_SuccessOnlyAfterRedirect ==
    [][ (Serves("order_success") /\ cart # <<>>) => redirected ]_vars

\* The sequence without its element at position p.
Without(s, p) == SubSeq(s, 1, p - 1) \o SubSeq(s, p + 1, Len(s))

\* The request served last is an update_quantity naming an entry of the cart.
UpdatedEntry == req.handler = "update_quantity" /\ req.arg < Len(req.cart)

\* The POST served last submitted the text of a positive integer.
PostedPositive ==
    /\ req.method = "POST"
    /\ ParseInt(req.form).ok
    /\ ParseInt(req.form).val > 0

\* C18: update_quantity(item_idx) with item_idx inside the cart acts on the
\* entry at that position of the cart's order and on no other: a GET, and a
\* POST of a quantity <= 0, remove exactly it; a POST of a positive quantity
\* writes the submitted quantity to it and keeps it at its position; every
\* other entry keeps its quantity and its place relative to the others.
C18_UpdateActsOnPosition ==
    UpdatedEntry
    => LET p == req.arg + 1
       IN  IF resp.kind = "fault" THEN cart = req.cart
           ELSE IF PostedPositive
           THEN /\ Len(cart) = Len(req.cart)
                /\ cart[p].id = req.cart[p].id
                /\ FloatOf(cart[p].quantity)
                      = [ok |-> TRUE, val |-> ParseInt(req.form).val]
                /\ Without(cart, p) = Without(req.cart, p)
           ELSE cart = Without(req.cart, p)

C18_Witness ==
    /\ UpdatedEntry
    /\ PostedPositive
    /\ Len(req.cart) >= 2
    /\ req.arg = 0
    /\ cart[1].id = req.cart[1].id
    /\ cart[1].quantity # req.cart[1].quantity
    /\ cart[2] = req.cart[2]

\* ===================================================== concurrent requests
\* app.run serves requests in threads that share cart, with no lock.  A
\* thread can be suspended between two statements of a handler (and between
\* the read and the write of cart[meal_id] += 1); cart.clear(), cart.pop()
\* and the handlers below that are not split run as one step.

\* Number of threads in the middle of a request.
Busy == Cardinality({ t \in Threads : inflight[t].pc # "idle" })

\* A thread may take a new request.
CanStart(t) == inflight[t].pc = "idle" /\ served + Busy < MaxRequests

\* The thread ends its request.
Finish(t) == inflight' = [inflight EXCEPT ![t] = Idle]

Suspend(t, pc, v, arg, local) ==
    /\ inflight' = [inflight EXCEPT
           ![t] = [pc |-> pc, client |-> v, arg |-> arg, local |-> local]]
    /\ UNCHANGED <<meals, cart, customers, session, served, req, resp, calls,
                   addRun, redirected>>

\* add_to_cart, line 104: if cart.get(meal_id)
add_test(t, v, meal_id) ==
    /\ CanStart(t)
    /\ Suspend(t,
               IF HasKey(cart, meal_id) /\ Truthy(GetItem(cart, meal_id))
               THEN "add_load" ELSE "add_store",
               v, meal_id, IntVal(1))

\* add_to_cart, line 105, first half: cart[meal_id] is read and 1 added to
\* it; KeyError when the entry is gone, TypeError when it holds a str.
add_load(t) ==
    /\ inflight[t].pc = "add_load"
    /\ LET v == inflight[t].client
           meal_id == inflight[t].arg
           request == Request(v, "add_to_cart", "GET", meal_id, NoForm)
       IN  IF ~HasKey(cart, meal_id)
           THEN /\ Serve(request, cart, Fault("KeyError"), <<>>)
                /\ Finish(t)
                /\ UNCHANGED <<customers, session>>
           ELSE IF GetItem(cart, meal_id).type # "int"
           THEN /\ Serve(request, cart, Fault("TypeError"), <<>>)
                /\ Finish(t)
                /\ UNCHANGED <<customers, session>>
           ELSE Suspend(t, "add_store", v, meal_id,
                        IntVal(GetItem(cart, meal_id).n + 1))

\* add_to_cart, line 105, second half, or line 107: the quantity is stored;
\* line 108: redirect.
add_store(t) ==
    /\ inflight[t].pc = "add_store"
    /\ Serve(Request(inflight[t].client, "add_to_cart", "GET",
                     inflight[t].arg, NoForm),
             SetItem(cart, inflight[t].arg, inflight[t].local),
             Redirect("home", NoFlash), <<>>)
    /\ Finish(t)
    /\ UNCHANGED <<customers, session>>

\* create_checkout_session, lines 77-78 and the two else branches: the
\* sign-in test and the test that the cart is not empty.
checkout_test(t, v) ==
    /\ CanStart(t)
    /\ IF IsAuthenticated(session, v) /\ cart # <<>>
       THEN Suspend(t, "checkout_derive", v, NoArg, IntVal(0))
       ELSE LET r == CheckoutResult(IsAuthenticated(session, v), cart, meals, "ok")
            IN  /\ Serve(Request(v, "create_checkout_session", "POST",
                                 NoArg, NoForm),
                         cart, r.resp, r.calls)
                /\ UNCHANGED <<customers, session, inflight>>

\* lines 79-83: get_line_items() on the cart as it is now, then the call to
\* the payment service and the redirect.
DeriveAndCall(c, m, pay) ==
    LET derived == get_line_items(c, m)
    IN  IF ~derived.ok
        THEN [resp |-> Fault("IndexError"), calls |-> <<>>]
        ELSE [resp |-> IF pay = "ok"
                       THEN Response("redirect", ProviderUrl, 303, NoFlash)
                       ELSE Fault("StripeError"),
              calls |-> << PaymentRequest(derived.line_items) >>]

checkout_call(t, pay) ==
    /\ inflight[t].pc = "checkout_derive"
    /\ LET r == DeriveAndCall(cart, meals, pay)
       IN  Serve(Request(inflight[t].client, "create_checkout_session", "POST",
                         NoArg, NoForm),
                 cart, r.resp, r.calls)
    /\ Finish(t)
    /\ UNCHANGED <<customers, session>>

\* A handler that runs as one step, in a thread of its own.
Whole(t) == CanStart(t) /\ UNCHANGED inflight

RaceNext ==
    \E t \in Threads, v \in Clients :
        \/ \E meal_id \in MealIds : add_test(t, v, meal_id)
        \/ add_load(t)
        \/ add_store(t)
        \/ checkout_test(t, v)
        \/ \E pay \in {"ok", "error"} : checkout_call(t, pay)
        \/ Whole(t) /\ order_success(v)
        \/ Whole(t) /\ logout(v)
        \/ Whole(t) /\ \E item_idx \in Indexes :
                          update_quantity(v, "GET", item_idx, NoField)
        \/ Whole(t) /\ \E form \in RegisterForms, salt \in Salts :
                          register(v, form, salt)

SpecRace == Init /\ [][RaceNext]_vars

\* C19: whatever requests of other visitors run between a checkout request's
\* test of the cart and its derivation of the line items, no payment-session
\* request is sent with an empty list of line items.
C19_NoEmptyPaymentRequest ==
    \A i \in 1..Len(calls) : calls[i].line_items # <<>>

\* No thread is in the middle of an add_to_cart of the id.
NoAddInFlight(k) ==
    \A t \in Threads :
        inflight[t].pc \in {"add_load", "add_store"} => inflight[t].arg # k

\* C20: once the add_to_cart requests for an id have all completed, n of them
\* since the id was absent and no other request touching the id, the cart
\* holds n for it, also when the requests ran concurrently.
C20_NoLostIncrement ==
    \A k \in CatalogIds(meals) :
        (addRun[k] > 0 /\ NoAddInFlight(k))
        => HasKey(cart, k) /\ GetItem(cart, k) = IntVal(addRun[k])

====
